---- MODULE Spec2Model ----
(***************************************************************************)
(* A model of src/src/Afanc/autodatabase/taxadd.py.                        *)
(*                                                                         *)
(* Text is a sequence of symbols.  A symbol is one character ("/", "_",    *)
(* " ", "\t", "|", "\n", ">", a digit, a letter of sequence data) or a      *)
(* word: a maximal run of other characters, a "." starting a new word      *)
(* (so "names.dmp.old" is <<"names", ".dmp", ".old">> however it was put   *)
(* together).  No operation of the program splits a word, so two texts     *)
(* are equal as Python strings exactly when they are equal here.           *)
(* A file's content is the whole text of the file, "\n" included.          *)
(* A dataframe is a sequence of rows, a row a sequence of cells.  A cell   *)
(* is a record [t, n, s]: an int64 cell carries its number in n, an        *)
(* object (string) cell its text in s, and a missing value (NaN) neither.  *)
(***************************************************************************)
EXTENDS Integers, Sequences, FiniteSets, TLC

VARIABLES
    pc,                  \* position in taxadd_Main / in the pure-function drivers
    walk,                \* the (dir, fasta) pairs os.walk will yield, in order
    idx,                 \* index of the next pair of walk
    names_path,          \* argument names_path
    nodes_path,          \* argument nodes_path
    names_df,            \* local names_df
    nodes_df,            \* local nodes_df
    fasta_dict,          \* local fasta_dict (insertion ordered)
    scaffold_taxid_dict, \* local scaffold_taxid_dict (insertion ordered)
    fs,                  \* the files on disk: path -> text
    fs0,                 \* the files on disk when taxadd_Main was called
    call,                \* arguments and result of the last getTaxidNames call
    fasta_data,          \* editFasta: text read from infasta
    fasta_edit,          \* editFasta: text written to fasta_file
    dmp_text,            \* a dump file's text
    dmp_df,              \* readDmp(dmp_text)
    dmp_df2              \* readDmp of the text writeDmp produced from dmp_df

vars == <<pc, walk, idx, names_path, nodes_path, names_df, nodes_df, fasta_dict,
          scaffold_taxid_dict, fs, fs0, call, fasta_data, fasta_edit,
          dmp_text, dmp_df, dmp_df2>>

-----------------------------------------------------------------------------
(* Bounds of the model *)

MaxRows == 2
MaxFiles == 2
MaxDmpRows == 2
MaxFastaLen == 5
DmpWidth == 2

-----------------------------------------------------------------------------
(* Python values and string primitives *)

TAB == "\t"
NL == "\n"
Whitespace == {" ", "\t"}
DigitChars == <<"0", "1", "2", "3", "4", "5", "6", "7", "8", "9">>

\* Python's None, kept a sequence so that it compares with any text
None == <<"<None>">>

IntCell(n) == [t |-> "int", n |-> n, s |-> <<>>]
StrCell(s) == [t |-> "str", n |-> 0, s |-> s]
NaN == [t |-> "nan", n |-> 0, s |-> <<>>]

\* the least element of a non-empty set of integers
Min(S) == CHOOSE i \in S : \A j \in S : i <= j

RECURSIVE SplitFrom(_, _, _)
SplitFrom(s, sep, i) ==
    LET hits == {j \in i..(Len(s) - Len(sep) + 1) : SubSeq(s, j, j + Len(sep) - 1) = sep}
    IN  IF hits = {} THEN <<SubSeq(s, i, Len(s))>>
        ELSE <<SubSeq(s, i, Min(hits) - 1)>> \o SplitFrom(s, sep, Min(hits) + Len(sep))

\* str.split(sep)
split(s, sep) == SplitFrom(s, sep, 1)

RECURSIVE join(_, _)
\* sep.join(parts)
join(sep, parts) ==
    IF parts = <<>> THEN <<>>
    ELSE IF Len(parts) = 1 THEN parts[1]
    ELSE parts[1] \o sep \o join(sep, Tail(parts))

RECURSIVE lstrip(_)
lstrip(s) == IF s # <<>> /\ s[1] \in Whitespace THEN lstrip(Tail(s)) ELSE s

RECURSIVE rstrip(_)
rstrip(s) ==
    IF s # <<>> /\ s[Len(s)] \in Whitespace THEN rstrip(SubSeq(s, 1, Len(s) - 1)) ELSE s

\* str.strip()
strip(s) == rstrip(lstrip(s))

\* str.replace(a, b) for one-character a and b
replace(s, a, b) == [i \in 1..Len(s) |-> IF s[i] = a THEN b ELSE s[i]]

\* str.count(c) for a one-character c
count(s, c) == Cardinality({i \in 1..Len(s) : s[i] = c})

DigitValue(c) == (CHOOSE i \in 1..10 : DigitChars[i] = c) - 1
IsDigit(c) == \E i \in 1..10 : DigitChars[i] = c

RECURSIVE IntOfDigits(_)
IntOfDigits(s) ==
    IF s = <<>> THEN 0
    ELSE 10 * IntOfDigits(SubSeq(s, 1, Len(s) - 1)) + DigitValue(s[Len(s)])

RECURSIVE StrOfNat(_)
\* str(n) of a non-negative int
StrOfNat(n) ==
    IF n < 10 THEN <<DigitChars[n + 1]>>
    ELSE StrOfNat(n \div 10) \o <<DigitChars[(n % 10) + 1]>>

\* str(x) of a dataframe cell
str(cell) ==
    IF cell.t = "int" THEN StrOfNat(cell.n)
    ELSE IF cell.t = "nan" THEN <<"nan">>
    ELSE cell.s

-----------------------------------------------------------------------------
(* readDmp and writeDmp *)

\* the lines pandas.read_csv tokenizes: blank lines are skipped
CsvLines(text) == SelectSeq(split(text, <<NL>>), LAMBDA l : l # <<>>)

\* the int64 parser of read_csv skips blanks around the digits
IsIntText(raw) == strip(raw) # <<>> /\ \A i \in 1..Len(strip(raw)) : IsDigit(strip(raw)[i])

readDmp_nostrip(text) ==
    LET raw == [r \in 1..Len(CsvLines(text)) |-> split(CsvLines(text)[r], <<"|">>)]
        IntColumn(c) == \A r \in 1..Len(raw) : IsIntText(raw[r][c])
        Cell(r, c) ==
            IF IntColumn(c) THEN IntCell(IntOfDigits(strip(raw[r][c])))
            ELSE IF raw[r][c] = <<>> THEN NaN
            ELSE StrCell(raw[r][c])
    IN  [r \in 1..Len(raw) |-> [c \in 1..Len(raw[r]) |-> Cell(r, c)]]

\* readDmp(dmp_file), given the text of dmp_file: read_csv(sep="|"), every
\* column typed from all of its fields, object columns stripped
readDmp(text) ==
    LET raw == [r \in 1..Len(CsvLines(text)) |-> split(CsvLines(text)[r], <<"|">>)]
        IntColumn(c) == \A r \in 1..Len(raw) : IsIntText(raw[r][c])
        Cell(r, c) ==
            IF IntColumn(c) THEN IntCell(IntOfDigits(strip(raw[r][c])))
            ELSE IF raw[r][c] = <<>> THEN NaN
            ELSE StrCell(strip(raw[r][c]))
    IN  [r \in 1..Len(raw) |-> [c \in 1..Len(raw[r]) |-> Cell(r, c)]]

RECURSIVE FlattenLines(_)
\* the text of a file to which each line was print()ed
FlattenLines(lines) ==
    IF lines = <<>> THEN <<>>
    ELSE lines[1] \o <<NL>> \o FlattenLines(Tail(lines))

\* one of the two with-blocks of writeDmp: the text written for dataframe df
writeDmp(df) ==
    LET Row(r) ==
            LET tmp_row == [c \in 1..(Len(df[r]) - 1) |-> str(df[r][c])]
            IN  join(<<TAB, "|", TAB>>, Append(tmp_row, <<>>))
    IN  FlattenLines([r \in 1..Len(df) |-> Row(r)])

\* A well-formed dump line of the given informative fields, as NCBI writes it:
\* fields separated by "\t|\t", the line ended by "\t|"
DmpLine(fields) == join(<<TAB, "|", TAB>>, fields) \o <<TAB, "|">>
DmpText(rows) == FlattenLines([r \in 1..Len(rows) |-> DmpLine(rows[r])])

-----------------------------------------------------------------------------
(* search_taxon, getTaxidNames *)

search_taxon_firstword(taxname, df) ==
    LET taxon_row == SelectSeq(df, LAMBDA row :
                        row[2].t = "str" /\ split(row[2].s, <<" ">>)[1] = split(taxname, <<" ">>)[1])
    IN  IF taxon_row = <<>> THEN None ELSE str(taxon_row[1][1])

\* search_taxon(taxname, names_df): names_df[names_df[1] == taxname], then
\* None or str() of column 0 of the first row kept
search_taxon(taxname, df) ==
    LET taxon_row == SelectSeq(df, LAMBDA row : row[2].t = "str" /\ row[2].s = taxname)
    IN  IF taxon_row = <<>> THEN None ELSE str(taxon_row[1][1])

\* getTaxidNames(taxname, mother_clade, names_df, nodes_df); the taxadd block
\* that follows the failed search is a string literal and executes nothing
getTaxidNames(taxname, mother_clade, names, nodes) ==
    LET taxname_ == replace(taxname, "_", " ")
        taxid == search_taxon(taxname_, names)
    IN  [taxid |-> taxid, names_df |-> names, nodes_df |-> nodes]

-----------------------------------------------------------------------------
(* editFasta, get_scaffold_ids, writeSeq2taxid *)

\* index of the last symbol of the line that holds position i
LineEnd(data, i) ==
    LET ends == {j \in i..Len(data) : data[j] = NL}
    IN  IF ends = {} THEN Len(data) ELSE Min(ends) - 1

RECURSIVE re_sub_from(_, _, _)
\* re.sub(r"(>.+)", r"\1" + suffix, data) from position i on: the leftmost
\* ">" followed by a symbol other than "\n" matches, greedily to the end of
\* its line; the scan goes on after the match
re_sub_from(data, suffix, i) ==
    LET hits == {j \in i..(Len(data) - 1) : data[j] = ">" /\ data[j + 1] # NL}
    IN  IF hits = {} THEN SubSeq(data, i, Len(data))
        ELSE SubSeq(data, i, LineEnd(data, Min(hits))) \o suffix
                 \o re_sub_from(data, suffix, LineEnd(data, Min(hits)) + 1)

\* the replacement text after \1
KrakenSuffix(taxid, taxname) == <<"|", "kraken:taxid", "|">> \o taxid \o <<"|">> \o taxname

\* path.basename(p)
basename(p) == split(p, <<"/">>)[Len(split(p, <<"/">>))]

\* editFasta(infasta, outdir, taxid, taxname), given the (decompressed) text
\* of infasta: the file it writes and the text written to it
editFasta(infasta, data, outdir, taxid, taxname) ==
    LET fasta_file ==
            IF infasta[Len(infasta)] = ".gz"
            THEN outdir \o <<"/">> \o taxid \o <<"_">> \o split(basename(infasta), <<".gz">>)[1]
            ELSE outdir \o <<"/">> \o taxid \o <<"_">> \o basename(infasta)
    IN  [fasta_file |-> fasta_file,
         fasta_edit |-> re_sub_from(data, KrakenSuffix(taxid, taxname), 1)]

\* rec.id of the record a header line starts (Bio.SeqIO): the first word of
\* the text after ">"
RecordId(line) ==
    LET title == lstrip(Tail(line))
        ends == {i \in 1..Len(title) : title[i] \in Whitespace}
    IN  IF ends = {} THEN title ELSE SubSeq(title, 1, Min(ends) - 1)

\* get_scaffold_ids(fasta), given the text Bio.SeqIO reads
get_scaffold_ids(data) ==
    LET headers == SelectSeq(split(data, <<NL>>), LAMBDA l : l # <<>> /\ l[1] = ">")
    IN  [i \in 1..Len(headers) |-> RecordId(headers[i])]

\* an f-string's rendering of a taxid, which is a str or None
Format(x) == IF x = None THEN <<"None">> ELSE x

RECURSIVE writeSeq2taxid_dedup(_)
writeSeq2taxid_dedup(d) ==
    IF d = <<>> THEN <<>>
    ELSE LET scaffids == d[1].val
             first == SelectSeq([i \in 1..Len(scaffids) |-> i], LAMBDA i :
                          \A j \in 1..(i - 1) : scaffids[j] # scaffids[i])
         IN  FlattenLines([i \in 1..Len(first) |->
                              scaffids[first[i]] \o <<TAB>> \o Format(d[1].key)])
                 \o writeSeq2taxid_dedup(Tail(d))

RECURSIVE writeSeq2taxid(_)
\* writeSeq2taxid(scaffold_taxid_dict, outdir): the text written to
\* seqid2taxid.map; a dict is iterated in insertion order
writeSeq2taxid(d) ==
    IF d = <<>> THEN <<>>
    ELSE FlattenLines([i \in 1..Len(d[1].val) |->
                          d[1].val[i] \o <<TAB>> \o Format(d[1].key)])
             \o writeSeq2taxid(Tail(d))

\* defaultdict(list): d[k].append(v), keys kept in insertion order
DictAppend(d, k, v) ==
    IF \E i \in 1..Len(d) : d[i].key = k
    THEN [i \in 1..Len(d) |-> IF d[i].key = k
                              THEN [key |-> k, val |-> Append(d[i].val, v)]
                              ELSE d[i]]
    ELSE Append(d, [key |-> k, val |-> <<v>>])

RECURSIVE DictExtend(_, _, _)
\* for v in vs: d[k].append(v)
DictExtend(d, k, vs) ==
    IF vs = <<>> THEN d ELSE DictExtend(DictAppend(d, k, vs[1]), k, Tail(vs))

-----------------------------------------------------------------------------
(* taxadd_Main: its inputs *)

\* argument fasta_db_path and argument fasta_WDir
fasta_db_path == <<"db", "/">>
fasta_WDir == <<"wd">>

ScientificName == <<"scientific", " ", "name">>

\* rows of names.dmp: taxid, name, unique name, name class
NameRows ==
    { << <<"5">>, <<"Foo">>, <<>>, <<"synonym">> >>,
      << <<"7">>, <<"Foo">>, <<>>, ScientificName >>,
      << <<"1", "2">>, <<"Foo", " ", "bar">>, <<>>, ScientificName >> }

SeqsUpTo(S, n) == UNION {[1..k -> S] : k \in 0..n}

NamesTables == SeqsUpTo(NameRows, MaxRows) \ {<<>>}

\* rows of nodes.dmp: taxid, parent, rank and ten further fields
NodesRows ==
    << << <<"1">>, <<"1">>, <<"no", " ", "rank">>, <<>>, <<"8">>, <<"0">>, <<"1">>,
          <<"0">>, <<"0">>, <<"0">>, <<"0">>, <<"0">>, <<>> >>,
       << <<"7">>, <<"1">>, <<"genus">>, <<>>, <<"0">>, <<"1">>, <<"1">>,
          <<"1">>, <<"0">>, <<"1">>, <<"0">>, <<"0">>, <<>> >> >>

\* the text of the FASTA files: two records, and one record
TwoRecords == <<">", "s1", " ", "x", NL, "A", "C", NL, ">", "s2", NL, "A", NL>>
OneRecord == <<">", "s3", NL, "C", NL>>

\* the files below fasta_db_path: the directory, the file name and the
\* (decompressed) text of each
Tree ==
    { [dir |-> fasta_db_path \o <<"Foo">>,
       fasta |-> <<"a", ".fa">>, data |-> TwoRecords],
      [dir |-> fasta_db_path \o <<"Foo">>,
       fasta |-> <<"c", ".fa">>, data |-> TwoRecords],
      [dir |-> fasta_db_path \o <<"Foo", "/", "Foo", "_", "bar">>,
       fasta |-> <<"b", ".fa", ".gz">>, data |-> OneRecord],
      [dir |-> fasta_db_path \o <<"Foo", "_", "baz">>,
       fasta |-> <<"a", ".fa">>, data |-> TwoRecords],
      [dir |-> fasta_db_path \o <<"Foo", "_", "baz">>,
       fasta |-> <<"b", ".fa", ".gz">>, data |-> OneRecord] }

\* the (dir, fasta) pairs a walk yields: files of the tree, each once
Walks == {w \in SeqsUpTo(Tree, MaxFiles) : \A i, j \in 1..Len(w) : w[i] = w[j] => i = j}

\* (names_path, nodes_path): the usual names, another file name, another
\* directory, the two names swapped, one file given twice
PathPairs ==
    { << <<"d1", "/", "names", ".dmp">>, <<"d1", "/", "nodes", ".dmp">> >>,
      << <<"d1", "/", "tax", ".dmp">>,   <<"d1", "/", "nodes", ".dmp">> >>,
      << <<"d1", "/", "names", ".dmp">>, <<"d2", "/", "nodes", ".dmp">> >>,
      << <<"d1", "/", "nodes", ".dmp">>, <<"d1", "/", "names", ".dmp">> >>,
      << <<"d1", "/", "names", ".dmp">>, <<"d1", "/", "names", ".dmp">> >> }

\* a backup an earlier run left behind
StalePath == <<"d1", "/", "names", ".dmp", ".old">>
StaleText == <<"stale", NL>>

NoCall == [made |-> FALSE, taxname |-> <<>>, mother_clade |-> None,
           names_df |-> <<>>, nodes_df |-> <<>>, taxid |-> None]

Idle ==
    /\ fasta_data = <<>> /\ fasta_edit = <<>>
    /\ dmp_text = <<>> /\ dmp_df = <<>> /\ dmp_df2 = <<>>

IdleUnchanged == UNCHANGED <<fasta_data, fasta_edit, dmp_text, dmp_df, dmp_df2>>

\* taxadd_Main up to the walk: the dicts are empty and both dumps are read
Init ==
    /\ pc = "walk"
    /\ idx = 1
    /\ walk \in Walks
    /\ \E pp \in PathPairs : names_path = pp[1] /\ nodes_path = pp[2]
    /\ \E rows \in NamesTables :
           fs0 = (names_path :> DmpText(rows)) @@ (nodes_path :> DmpText(NodesRows))
                     @@ (StalePath :> StaleText)
    /\ fs = fs0
    /\ names_df = readDmp(fs0[names_path])
    /\ nodes_df = readDmp(fs0[nodes_path])
    /\ fasta_dict = <<>>
    /\ scaffold_taxid_dict = <<>>
    /\ call = NoCall
    /\ Idle

-----------------------------------------------------------------------------
(* taxadd_Main: the walk *)

\* os.path.join(a, b)
path_join(a, b) == IF a[Len(a)] = "/" THEN a \o b ELSE a \o <<"/">> \o b

\* taxon_rank of a walked directory
taxon_rank(dir) ==
    LET rest == split(dir, fasta_db_path) IN split(rest[Len(rest)], <<"/">>)

taxname_of(dir) == taxon_rank(dir)[Len(taxon_rank(dir))]

mother_clade_of(dir) ==
    IF Len(taxon_rank(dir)) > 1 THEN taxon_rank(dir)[Len(taxon_rank(dir)) - 1] ELSE None

\* what Bio.SeqIO yields for infasta: it opens the path itself, so it reads a
\* .gz file's compressed bytes, which hold no FASTA record
ScaffoldIds(e) == IF e.fasta[Len(e.fasta)] = ".gz" THEN <<>> ELSE get_scaffold_ids(e.data)

\* the body of the loop up to and including the scaffold id loop
LoopHead(e) ==
    LET infasta == path_join(e.dir, e.fasta)
        taxname == taxname_of(e.dir)
        r == getTaxidNames(taxname, mother_clade_of(e.dir), names_df, nodes_df)
    IN  [infasta |-> infasta,
         taxname |-> taxname,
         taxid |-> r.taxid,
         names_df |-> r.names_df,
         nodes_df |-> r.nodes_df,
         fasta_dict |-> DictAppend(fasta_dict, taxname, infasta),
         scaffold_taxid_dict |-> DictExtend(scaffold_taxid_dict, r.taxid, ScaffoldIds(e)),
         call |-> [made |-> TRUE, taxname |-> taxname,
                   mother_clade |-> mother_clade_of(e.dir),
                   names_df |-> names_df, nodes_df |-> nodes_df, taxid |-> r.taxid]]

walk_done_early == TRUE

\* the for loops over walk() are exhausted
walk_done == idx > Len(walk)

\* one pass of the inner loop, to its end or to its continue
taxadd_Main_fasta ==
    /\ pc = "walk" /\ idx <= Len(walk)
    /\ LET e == walk[idx]
           h == LoopHead(e)
           out == editFasta(h.infasta, e.data, fasta_WDir, h.taxid, h.taxname)
       IN  /\ fasta_dict' = h.fasta_dict
           /\ names_df' = h.names_df
           /\ nodes_df' = h.nodes_df
           /\ call' = h.call
           /\ scaffold_taxid_dict' = h.scaffold_taxid_dict
           /\ fs' = IF h.taxid = None THEN fs
                    ELSE (out.fasta_file :> out.fasta_edit) @@ fs
    /\ idx' = idx + 1
    /\ UNCHANGED <<pc, walk, names_path, nodes_path, fs0>>
    /\ IdleUnchanged

\* get_scaffold_ids raises: infasta cannot be read
taxadd_Main_fasta_unreadable ==
    /\ pc = "walk" /\ idx <= Len(walk)
    /\ LET h == LoopHead(walk[idx])
       IN  /\ fasta_dict' = h.fasta_dict
           /\ names_df' = h.names_df
           /\ nodes_df' = h.nodes_df
           /\ call' = h.call
    /\ pc' = "fatal_walk"
    /\ UNCHANGED <<walk, idx, names_path, nodes_path, scaffold_taxid_dict, fs, fs0>>
    /\ IdleUnchanged

\* editFasta raises: the edited FASTA cannot be written
taxadd_Main_fasta_unwritable ==
    /\ pc = "walk" /\ idx <= Len(walk)
    /\ LET h == LoopHead(walk[idx])
       IN  /\ h.taxid # None
           /\ fasta_dict' = h.fasta_dict
           /\ names_df' = h.names_df
           /\ nodes_df' = h.nodes_df
           /\ call' = h.call
           /\ scaffold_taxid_dict' = h.scaffold_taxid_dict
    /\ pc' = "fatal_walk"
    /\ UNCHANGED <<walk, idx, names_path, nodes_path, fs, fs0>>
    /\ IdleUnchanged

-----------------------------------------------------------------------------
(* taxadd_Main: after the walk *)

taxadd_Main_steps_write_first ==
    <<"walk", "writeDmp_names", "writeDmp_nodes", "rename_names", "rename_nodes",
      "writeSeq2taxid", "done">>

\* the statements of taxadd_Main in program order
taxadd_Main_steps ==
    <<"walk", "rename_names", "rename_nodes", "writeDmp_names", "writeDmp_nodes",
      "writeSeq2taxid", "done">>

StepAfter(s) ==
    taxadd_Main_steps[(CHOOSE i \in 1..Len(taxadd_Main_steps) : taxadd_Main_steps[i] = s) + 1]

\* dirpath = "/".join(names_path.split("/")[:-1])
dirpath ==
    LET parts == split(names_path, <<"/">>) IN join(<<"/">>, SubSeq(parts, 1, Len(parts) - 1))

NamesOld == dirpath \o <<"/", "names", ".dmp", ".old">>
NodesOld == dirpath \o <<"/", "nodes", ".dmp", ".old">>
NamesOut == dirpath \o <<"/", "names", ".dmp">>
NodesOut == dirpath \o <<"/", "nodes", ".dmp">>
MapOut == dirpath \o <<"/", "seqid2taxid", ".map">>

\* os.rename(src, dst) of an existing src: dst is replaced
rename(files, src, dst) ==
    [p \in (DOMAIN files \ {src}) \cup {dst} |-> IF p = dst THEN files[src] ELSE files[p]]

\* open(p, "w") and the prints into it
write(files, p, text) == (p :> text) @@ files

taxadd_Main_walk_end ==
    /\ pc = "walk" /\ walk_done
    /\ pc' = StepAfter("walk")
    /\ UNCHANGED <<walk, idx, names_path, nodes_path, names_df, nodes_df, fasta_dict,
                   scaffold_taxid_dict, fs, fs0, call>>
    /\ IdleUnchanged

rename_names ==
    /\ pc = "rename_names" /\ names_path \in DOMAIN fs
    /\ fs' = rename(fs, names_path, NamesOld)
    /\ pc' = StepAfter("rename_names")
    /\ UNCHANGED <<walk, idx, names_path, nodes_path, names_df, nodes_df, fasta_dict,
                   scaffold_taxid_dict, fs0, call>>
    /\ IdleUnchanged

rename_nodes ==
    /\ pc = "rename_nodes" /\ nodes_path \in DOMAIN fs
    /\ fs' = rename(fs, nodes_path, NodesOld)
    /\ pc' = StepAfter("rename_nodes")
    /\ UNCHANGED <<walk, idx, names_path, nodes_path, names_df, nodes_df, fasta_dict,
                   scaffold_taxid_dict, fs0, call>>
    /\ IdleUnchanged

\* os.rename raises FileNotFoundError
rename_fail ==
    /\ \/ pc = "rename_names" /\ names_path \notin DOMAIN fs
       \/ pc = "rename_nodes" /\ nodes_path \notin DOMAIN fs
    /\ pc' = "fatal_rename"
    /\ UNCHANGED <<walk, idx, names_path, nodes_path, names_df, nodes_df, fasta_dict,
                   scaffold_taxid_dict, fs, fs0, call>>
    /\ IdleUnchanged

\* writeDmp, first with-block
writeDmp_names ==
    /\ pc = "writeDmp_names"
    /\ fs' = write(fs, NamesOut, writeDmp(names_df))
    /\ pc' = StepAfter("writeDmp_names")
    /\ UNCHANGED <<walk, idx, names_path, nodes_path, names_df, nodes_df, fasta_dict,
                   scaffold_taxid_dict, fs0, call>>
    /\ IdleUnchanged

\* writeDmp, second with-block
writeDmp_nodes ==
    /\ pc = "writeDmp_nodes"
    /\ fs' = write(fs, NodesOut, writeDmp(nodes_df))
    /\ pc' = StepAfter("writeDmp_nodes")
    /\ UNCHANGED <<walk, idx, names_path, nodes_path, names_df, nodes_df, fasta_dict,
                   scaffold_taxid_dict, fs0, call>>
    /\ IdleUnchanged

writeSeq2taxid_map ==
    /\ pc = "writeSeq2taxid"
    /\ fs' = write(fs, MapOut, writeSeq2taxid(scaffold_taxid_dict))
    /\ pc' = StepAfter("writeSeq2taxid")
    /\ UNCHANGED <<walk, idx, names_path, nodes_path, names_df, nodes_df, fasta_dict,
                   scaffold_taxid_dict, fs0, call>>
    /\ IdleUnchanged

Next ==
    \/ taxadd_Main_fasta
    \/ taxadd_Main_fasta_unreadable
    \/ taxadd_Main_fasta_unwritable
    \/ taxadd_Main_walk_end
    \/ rename_names
    \/ rename_nodes
    \/ rename_fail
    \/ writeDmp_names
    \/ writeDmp_nodes
    \/ writeSeq2taxid_map

Spec == Init /\ [][Next]_vars

-----------------------------------------------------------------------------
(* editFasta on its own: every short text over ">", a base and "\n" *)

FastaAlphabet == {">", "A", NL}
FastaTexts == SeqsUpTo(FastaAlphabet, MaxFastaLen)
FastaTaxid == <<"7">>
FastaTaxname == <<"Foo", "_", "bar">>

MainIdle ==
    /\ walk = <<>> /\ idx = 1
    /\ names_path = <<>> /\ nodes_path = <<>>
    /\ names_df = <<>> /\ nodes_df = <<>>
    /\ fasta_dict = <<>> /\ scaffold_taxid_dict = <<>>
    /\ fs = <<>> /\ fs0 = <<>>
    /\ call = NoCall

MainUnchanged ==
    UNCHANGED <<walk, idx, names_path, nodes_path, names_df, nodes_df, fasta_dict,
                scaffold_taxid_dict, fs, fs0, call>>

InitFasta ==
    /\ pc = "editFasta"
    /\ fasta_data \in FastaTexts
    /\ fasta_edit = <<>>
    /\ dmp_text = <<>> /\ dmp_df = <<>> /\ dmp_df2 = <<>>
    /\ MainIdle

editFasta_call ==
    /\ pc = "editFasta"
    /\ fasta_edit' = editFasta(<<"db", "/", "a", ".fa">>, fasta_data, fasta_WDir,
                               FastaTaxid, FastaTaxname).fasta_edit
    /\ pc' = "edited"
    /\ UNCHANGED <<fasta_data, dmp_text, dmp_df, dmp_df2>>
    /\ MainUnchanged

NextFasta == editFasta_call

SpecFasta == InitFasta /\ [][NextFasta]_vars

-----------------------------------------------------------------------------
(* readDmp and writeDmp on their own: well-formed dump texts *)

\* informative fields: empty, a number with a leading zero, two words
DmpFields == {<<>>, <<"0", "7">>, <<"Foo", " ", "bar">>}
DmpRows == [1..DmpWidth -> DmpFields]
DmpTables == SeqsUpTo(DmpRows, MaxDmpRows) \ {<<>>}

InitDmp ==
    /\ pc = "readDmp"
    /\ \E rows \in DmpTables : dmp_text = DmpText(rows)
    /\ dmp_df = <<>> /\ dmp_df2 = <<>>
    /\ fasta_data = <<>> /\ fasta_edit = <<>>
    /\ MainIdle

readDmp_call ==
    /\ pc = "readDmp"
    /\ dmp_df' = readDmp(dmp_text)
    /\ pc' = "writeDmp"
    /\ UNCHANGED <<dmp_text, dmp_df2, fasta_data, fasta_edit>>
    /\ MainUnchanged

\* writeDmp of the dataframe, and readDmp of the file written
writeDmp_readDmp_call ==
    /\ pc = "writeDmp"
    /\ dmp_df2' = readDmp(writeDmp(dmp_df))
    /\ pc' = "reread"
    /\ UNCHANGED <<dmp_text, dmp_df, fasta_data, fasta_edit>>
    /\ MainUnchanged

NextDmp == readDmp_call \/ writeDmp_readDmp_call

SpecDmp == InitDmp /\ [][NextDmp]_vars

-----------------------------------------------------------------------------
(* The claims *)

Found(name, df) == \E r \in 1..Len(df) : df[r][2] = StrCell(name)
Normalized == replace(call.taxname, "_", " ")
Genus == split(Normalized, <<" ">>)[1]
TablesAsPassed == names_df = call.names_df /\ nodes_df = call.nodes_df

\* C1: resolve returns, as a string, the taxid of the first row whose name
\* equals the normalized name and whose name class is "scientific name", and
\* returns the tables it was passed; a row of another name class is never
\* the row whose taxid is returned.
C1_ScientificNameRow ==
    call.made =>
        LET sci == SelectSeq(call.names_df, LAMBDA row :
                       row[2] = StrCell(Normalized) /\ row[4] = StrCell(ScientificName))
        IN  sci # <<>> => call.taxid = str(sci[1][1]) /\ TablesAsPassed

MaxTaxid(df) == CHOOSE m \in {df[r][1].n : r \in 1..Len(df)} :
                    \A r \in 1..Len(df) : df[r][1].n <= m

\* C2: name absent, genus present, no mother clade: resolve returns a fresh
\* taxid greater than every taxid of the names table, and appends exactly one
\* NamesEntry (taxid, name, "", "scientific name") and one NodesEntry (taxid,
\* genus taxid, rank), the rank "species" for a name with exactly one space.
C2_SynthesisFallback ==
    (/\ call.made
     /\ ~Found(Normalized, call.names_df)
     /\ Found(Genus, call.names_df)
     /\ call.mother_clade = None)
    => /\ call.taxid # None
       /\ IntOfDigits(call.taxid) > MaxTaxid(call.names_df)
       /\ Len(names_df) = Len(call.names_df) + 1
       /\ SubSeq(names_df, 1, Len(call.names_df)) = call.names_df
       /\ SubSeq(names_df[Len(names_df)], 1, 4) =
              <<IntCell(IntOfDigits(call.taxid)), StrCell(Normalized), StrCell(<<>>),
                StrCell(ScientificName)>>
       /\ Len(nodes_df) = Len(call.nodes_df) + 1
       /\ SubSeq(nodes_df, 1, Len(call.nodes_df)) = call.nodes_df
       /\ nodes_df[Len(nodes_df)][1] = IntCell(IntOfDigits(call.taxid))
       /\ str(nodes_df[Len(nodes_df)][2]) = search_taxon(Genus, call.names_df)
       /\ (count(Normalized, " ") = 1 => nodes_df[Len(nodes_df)][3] = StrCell(<<"species">>))

Unresolvable ==
    /\ call.made
    /\ ~Found(Normalized, call.names_df)
    /\ \/ call.mother_clade = None
       \/ ~Found(replace(call.mother_clade, "_", " "), call.names_df)
    /\ ~Found(Genus, call.names_df)

\* C3: when neither the normalized name, nor the mother clade (if given), nor
\* the first word of the name is in the names table, resolve returns None and
\* the tables it returns are the tables it was passed.
C3_UnresolvableIsNone == Unresolvable => call.taxid = None /\ TablesAsPassed

C3_Witness ==
    /\ Unresolvable
    /\ call.taxname = <<"Foo", "_", "baz">>
    /\ call.taxid = None
    /\ Len(fasta_dict) = 1

MapLines(text) == LET pieces == split(text, <<NL>>) IN SubSeq(pieces, 1, Len(pieces) - 1)
TaxidColumn(line) == split(line, <<TAB>>)[2]

\* C4: no scaffold id of a file whose taxon resolves to None enters the
\* scaffold-taxid map: the map never has an entry keyed by None and the map
\* file written has no line of an unresolved taxid; the file is recorded in
\* fasta_dict all the same.
C4_NoUnresolvedEntry ==
    /\ \A i \in 1..Len(scaffold_taxid_dict) : scaffold_taxid_dict[i].key # None
    /\ (pc = "done" =>
            \A i \in 1..Len(MapLines(fs[MapOut])) :
                TaxidColumn(MapLines(fs[MapOut])[i]) # Format(None))
    /\ (call.made /\ pc = "walk" =>
            \E i \in 1..Len(fasta_dict) : fasta_dict[i].key = call.taxname)

HasCopy(text) == \E p \in DOMAIN fs : fs[p] = text

NewDumpWritten ==
    \/ NamesOut \in DOMAIN fs /\ fs[NamesOut] = writeDmp(names_df)
    \/ NodesOut \in DOMAIN fs /\ fs[NodesOut] = writeDmp(nodes_df)

BothOldExist ==
    /\ NamesOld \in DOMAIN fs /\ fs[NamesOld] = fs0[names_path]
    /\ NodesOld \in DOMAIN fs /\ fs[NodesOld] = fs0[nodes_path]

FastaLines(text) == split(text, <<NL>>)

\* C6: rewrite appends |kraken:taxid|<taxid>|<taxonName> to every line that
\* begins with ">" and leaves every other line as it was.
C6_HeadersOnly ==
    pc = "edited" =>
        FastaLines(fasta_edit) =
            [i \in 1..Len(FastaLines(fasta_data)) |->
                LET line == FastaLines(fasta_data)[i]
                IN  IF line # <<>> /\ line[1] = ">"
                    THEN line \o KrakenSuffix(FastaTaxid, FastaTaxname)
                    ELSE line]

RECURSIVE Occurrences(_)
Occurrences(d) == IF d = <<>> THEN 0 ELSE Len(d[1].val) + Occurrences(Tail(d))

\* C7: the map file holds exactly one line scaffoldId<TAB>taxid for every
\* (taxid, scaffold id) occurrence of the map and no other line; the lines of
\* one taxid are contiguous and in the order the ids were appended.
C7_MapFileFidelity ==
    MapOut \in DOMAIN fs =>
        LET lines == MapLines(fs[MapOut])
            d == scaffold_taxid_dict
        IN  /\ Len(lines) = Occurrences(d)
            /\ \A i \in 1..Len(lines) : Len(split(lines[i], <<TAB>>)) = 2
            /\ \A e \in 1..Len(d) :
                   SelectSeq(lines, LAMBDA l : TaxidColumn(l) = Format(d[e].key)) =
                       [i \in 1..Len(d[e].val) |-> d[e].val[i] \o <<TAB>> \o Format(d[e].key)]
            /\ \A i, k \in 1..Len(lines) : \A j \in i..k :
                   TaxidColumn(lines[i]) = TaxidColumn(lines[k]) =>
                       TaxidColumn(lines[j]) = TaxidColumn(lines[i])

C7_Witness ==
    /\ pc = "done"
    /\ Len(scaffold_taxid_dict) = 2
    /\ \A e \in 1..2 : Len(scaffold_taxid_dict[e].val) >= 2
    /\ Len(MapLines(fs[MapOut])) >= 4

IsEmptyCell(cell) == cell = NaN \/ cell = StrCell(<<>>)

\* C8: reading a well-formed dump, writing the dataframe and reading what was
\* written gives the rows of the first read: as many rows in the same order,
\* as many fields per row, every informative field equal, and the trailing
\* field empty in its position.
C8_RoundTrip ==
    pc = "reread" =>
        /\ Len(dmp_df2) = Len(dmp_df)
        /\ \A r \in 1..Len(dmp_df) :
               /\ Len(dmp_df2[r]) = Len(dmp_df[r])
               /\ \A c \in 1..(Len(dmp_df[r]) - 1) : dmp_df2[r][c] = dmp_df[r][c]
               /\ IsEmptyCell(dmp_df[r][Len(dmp_df[r])])
               /\ IsEmptyCell(dmp_df2[r][Len(dmp_df[r])])

C8_Witness ==
    /\ pc = "reread"
    /\ Len(dmp_df) = 2
    /\ dmp_df[1][1] = IntCell(7)
    /\ dmp_df[2][2] = StrCell(<<>>)
    /\ dmp_df2[1][2] = StrCell(<<"Foo", " ", "bar">>)

\* C9: after the write step the serialized names table is at names_path and
\* the serialized nodes table at nodes_path, and the previous content of each
\* is at the same path with .old appended.
C9_WrittenAtGivenPaths ==
    pc = "done" =>
        /\ names_path \in DOMAIN fs /\ fs[names_path] = writeDmp(names_df)
        /\ nodes_path \in DOMAIN fs /\ fs[nodes_path] = writeDmp(nodes_df)
        /\ (names_path \o <<".old">>) \in DOMAIN fs
        /\ fs[names_path \o <<".old">>] = fs0[names_path]
        /\ (nodes_path \o <<".old">>) \in DOMAIN fs
        /\ fs[nodes_path \o <<".old">>] = fs0[nodes_path]

DumpsAsAtStart ==
    /\ \A p \in DOMAIN fs0 : p \in DOMAIN fs /\ fs[p] = fs0[p]
    /\ \A p \in DOMAIN fs \ DOMAIN fs0 :
           SubSeq(p, 1, Len(fasta_WDir) + 1) = fasta_WDir \o <<"/">>

\* C10: nothing is renamed or written among the dump files, their .old files
\* and the map file before the walk has processed every file; a run that
\* aborts during the walk leaves the dump files as they were and creates no
\* .old file.
C10_NoDumpChangeBeforeWalkEnds ==
    (idx <= Len(walk) \/ pc \in {"walk", "fatal_walk"}) => DumpsAsAtStart

C10_Witness == pc = "fatal_walk" /\ idx = 2 /\ fs # fs0

====
